---- MODULE Spec2Model ----
(***************************************************************************)
(* Model of the kn CLI tool resolution / install flow (KnCliConfig):       *)
(* loadMetadata, resetConfiguration, detectOrDownload, getVersion and      *)
(* selectTool.  Every detectOrDownload call is a process that advances     *)
(* from one await point of the async function to the next.                 *)
(*                                                                         *)
(* Model of the commands of Component (knative/component.ts): del,         *)
(* undeploy, push, lastPush, linkComponent, unlinkComponent, the create    *)
(* commands and import.  An invocation advances from one await point to    *)
(* the next; commands it starts without awaiting them go on in the         *)
(* background.                                                             *)
(***************************************************************************)
EXTENDS Integers, Sequences, FiniteSets, TLC

(* ---------------------------------------------------------------- bounds *)
\* number of detectOrDownload calls that may be in progress together
NumCalls == 2
\* cap on the 'Download again' answers given inside one call
MaxAgain == 1
\* longest candidate list handed to selectTool in SpecSelect
MaxLocations == 3
\* number of components of the application shown in the tree
NumComps == 2
\* most ports a component declares, most storages and most routes it has
MaxItems == 2

Calls == 1..NumCalls

(* ----------------------------------------------------------- basic values *)
\* the only tool id of the registry
Cmd == "kn"
\* JavaScript undefined for a path-valued variable
Undefined == <<"undefined">>
\* JavaScript null in the candidate list
Null == <<>>
\* no detected version
NoVersion == <<>>

\* a path is the tuple of its components; a file name is the tuple of its
\* dot-separated components, so that endsWith can be computed
UserHome == <<"home">>
CacheDir == UserHome \o <<".vs-kn">>
WhichPath == <<"usr", "bin", "kn">>
OtherPath == <<"opt", "kn">>

DlFileNames == { <<"kn", "zip">>, <<"kn", "tar", "gz">>, <<"kn", "gz">>, <<"kn", "bin">> }
CmdFileName == <<"kn">>

Resolve(dir, name) == dir \o name

(* -------------------------------------------------------------- versions *)
V090 == <<0, 9, 0>>
V120 == <<1, 2, 0>>
V200 == <<2, 0, 0>>

\* the range ">=1.0.0 <2.0.0" of the metadata
VersionRange == [lo |-> <<1, 0, 0>>, hi |-> V200]
OtherRange == [lo |-> V090, hi |-> V120]

VLess(a, b) ==
    \/ a[1] < b[1]
    \/ a[1] = b[1] /\ a[2] < b[2]
    \/ a[1] = b[1] /\ a[2] = b[2] /\ a[3] < b[3]

\* semver.satisfies(version, range): false for an undefined version
Satisfies(v, range) ==
    /\ v # NoVersion
    /\ ~VLess(v, range.lo)
    /\ VLess(v, range.hi)

(* ----------------------------------------------------------------- files *)
\* digest the metadata expects, digest of a corrupted archive, digest of a
\* partially written file
GoodSum == "sha-good"
BadSum == "sha-bad"
PartialSum == "sha-partial"

\* a line of the binary's `version` output is the version it shows when it
\* matches the "Version: vX.Y.Z" pattern, and <<>> when it does not match
JunkLine == <<>>

NoFile == [kind |-> "none", digest |-> "sha-other", out |-> <<>>]
Bin(out) == [kind |-> "bin", digest |-> "sha-other", out |-> out]
ArchiveFile(d, out) == [kind |-> "archive", digest |-> d, out |-> out]
PartialFile == [kind |-> "partial", digest |-> PartialSum, out |-> <<>>]

\* what the download URL serves: the right archive or a corrupted one
GoodArchive == ArchiveFile(GoodSum, <<JunkLine, V120>>)
BadArchive == ArchiveFile(BadSum, <<JunkLine>>)

(* -------------------------------------------------------------- metadata *)
\* kn-cli-config.json: one entry per tool, with per-platform overrides
Config(f) ==
    [kn |-> [description |-> "Knative CLI tool",
             version |-> V120,
             versionRange |-> VersionRange,
             sha256sum |-> BadSum,
             dlFileName |-> <<"kn", "bin">>,
             cmdFileName |-> CmdFileName,
             platform |-> [win32 |-> [sha256sum |-> GoodSum, dlFileName |-> f],
                           linux |-> [sha256sum |-> GoodSum, dlFileName |-> f]]]]

\* Assign as it would be if a field of the target were kept
AssignKeepTarget(target, source) ==
    [k \in DOMAIN target \cup DOMAIN source |->
        IF k \in DOMAIN target THEN target[k] ELSE source[k]]

\* Object.assign(target, source)
Assign(target, source) ==
    [k \in DOMAIN target \cup DOMAIN source |->
        IF k \in DOMAIN source THEN source[k] ELSE target[k]]

\* delete obj[key]
Delete(obj, key) == [k \in DOMAIN obj \ {key} |-> obj[k]]

loadMetadata(requirements, platform) ==
    LET kept == { o \in DOMAIN requirements :
                    \/ "platform" \notin DOMAIN requirements[o]
                    \/ platform \in DOMAIN requirements[o].platform }
    IN  [o \in kept |->
            IF "platform" \in DOMAIN requirements[o]
            THEN Delete(Assign(requirements[o], requirements[o].platform[platform]),
                        "platform")
            ELSE requirements[o]]

VARIABLES
    configData,     \* the static configuration (never written)
    os,             \* Platform.OS
    tools,          \* KnCliConfig.tools
    fs,             \* the files the flow reads and writes, by path
    dirExists,      \* whether the cache directory ~/.vs-kn exists
    pc,             \* per call: the await point it is suspended at
    toolLocations,  \* per call: the candidate list given to selectTool
    versionRange,   \* per call: the range given to selectTool
    idx,            \* per call: position of selectTool's loop
    toolLocation,   \* per call: local toolLocation / selectTool's result
    response,       \* per call: answer to the 'Cannot find' prompt
    action,         \* per call: answer to the checksum prompt
    hist,           \* per call: what the call has done so far
    contextValue,   \* Component: contextValue of each component of the tree
    globalState,    \* Component: extensionContext.globalState.get('PUSH')
    inv,            \* Component: the invocation in progress (locals, position)
    pending,        \* Component: commands the invocation started and did not await, still running
    unhandled,      \* Component: those of them that failed, with no handler
    lastPushed      \* Component: context path of the latest executed push

vars == <<configData, os, tools, fs, dirExists, pc, toolLocations, versionRange,
          idx, toolLocation, response, action, hist,
          contextValue, globalState, inv, pending, unhandled, lastPushed>>

\* the state of the Component commands
cvars == <<contextValue, globalState, inv, pending, unhandled, lastPushed>>

\* tools[cmd].location, undefined while the field is absent
Location(t) == IF "location" \in DOMAIN t[Cmd] THEN t[Cmd].location ELSE Undefined

toolCacheLocation == Resolve(CacheDir, tools[Cmd].cmdFileName)
toolDlLocation == Resolve(CacheDir, tools[Cmd].dlFileName)

Paths == {WhichPath, OtherPath, Resolve(CacheDir, CmdFileName)}
            \cup { Resolve(CacheDir, f) : f \in DlFileNames }

\* fs.existsSync
existsSync(fsys, location) == location \in DOMAIN fsys /\ fsys[location].kind # "none"

\* shelljs which(cmd): the binary on the PATH, or null
which(fsys) == IF existsSync(fsys, WhichPath) THEN WhichPath ELSE Null

\* stdout of `"location" version`: only a binary prints anything
Execute(fsys, location) ==
    IF fsys[location].kind = "bin" THEN fsys[location].out ELSE <<>>

Matches(line) == line # JunkLine

\* getVersion as it would be if the last matching line were taken
getVersionLastMatch(fsys, location) ==
    IF existsSync(fsys, location)
    THEN LET stdout == Execute(fsys, location)
             toolVersion == SelectSeq(stdout, Matches)
         IN  IF stdout # <<>> /\ Len(toolVersion) > 0
             THEN toolVersion[Len(toolVersion)]
             ELSE NoVersion
    ELSE NoVersion

\* lines 141-163
getVersion(fsys, location) ==
    IF existsSync(fsys, location)
    THEN LET stdout == Execute(fsys, location)
             toolVersion == SelectSeq(stdout, Matches)
         IN  IF stdout # <<>> /\ Len(toolVersion) > 0
             THEN toolVersion[1]
             ELSE NoVersion
    ELSE NoVersion

\* String.prototype.endsWith on a dotted name
endsWith(name, suffix) ==
    /\ Len(name) >= Len(suffix)
    /\ SubSeq(name, Len(name) - Len(suffix) + 1, Len(name)) = suffix

NoHist == [invoked |-> {}, attempts |-> 0, agains |-> 0, mismatched |-> FALSE,
           extracted |-> FALSE, recorded |-> FALSE, cancelled |-> FALSE,
           failed |-> FALSE]

InstallRequest == "Download and install"
Responses == {InstallRequest, "Help", "Cancel", "undefined"}
Actions == {"Download again", "Cancel", "undefined"}

(* ------------------------------------------------------------------ Init *)
PathBinaries == {NoFile, Bin(<<V090>>), Bin(<<V120>>)}
CacheBinaries == {NoFile, Bin(<<V090>>), Bin(<<JunkLine, V120, V090>>)}

(* ------------------------------------------------- Component: values *)
CompNames == <<"frontend", "backend", "database", "cache">>
\* the components of the application, by name (getName())
Comps == { CompNames[i] : i \in 1..NumComps }
\* component.getParent().getParent().getName() and getParent().getName()
Project == "myproject"
App == "myapp"
\* ContextType of a component item
ContextType ==
    [COMPONENT |-> "component_not_pushed", COMPONENT_PUSHED |-> "component",
     COMPONENT_NO_CONTEXT |-> "component_no_context"]
ContextTypes == {ContextType[k] : k \in DOMAIN ContextType}
\* component.contextPath.fsPath
contextPath(c) == <<"workspace", c>>
\* a prompt that was dismissed, a variable never assigned, a missing key
Dismissed == "undefined"
\* no value stored under a globalState key
NoPush == [pushCmd |-> [api |-> "", args |-> <<>>], contextPath |-> <<>>, stored |-> FALSE]
\* no invocation has been made yet
IdleInv ==
    [op |-> "none", pc |-> "idle", component |-> Dismissed, value |-> Dismissed,
     other |-> Dismissed, migrated |-> "unknown", todo |-> <<>>, answered |-> {},
     issued |-> <<>>, terminal |-> <<>>, result |-> [kind |-> "pending", value |-> ""]]

\* no Component command is running (the tool flow is looked at alone)
InitNoComponent ==
    /\ contextValue = [c \in Comps |-> ContextType.COMPONENT]
    /\ globalState = NoPush
    /\ inv = IdleInv
    /\ pending = {}
    /\ unhandled = {}
    /\ lastPushed = <<>>

InitCalls ==
    /\ pc = [p \in Calls |-> "idle"]
    /\ toolLocations = [p \in Calls |-> <<>>]
    /\ versionRange = [p \in Calls |-> VersionRange]
    /\ idx = [p \in Calls |-> 1]
    /\ toolLocation = [p \in Calls |-> Undefined]
    /\ response = [p \in Calls |-> "none"]
    /\ action = [p \in Calls |-> "none"]
    /\ hist = [p \in Calls |-> NoHist]

\* the file the metadata names for a platform: Windows downloads a .zip
\* or a bare file, the others a .tar.gz, a .gz or a bare file
PlatformFiles ==
    { <<"win32", <<"kn", "zip">> >>, <<"win32", <<"kn", "bin">> >>,
      <<"linux", <<"kn", "tar", "gz">> >>, <<"linux", <<"kn", "gz">> >>,
      <<"linux", <<"kn", "bin">> >> }

Init ==
    /\ \E pf \in PlatformFiles :
          /\ os = pf[1]
          /\ configData = Config(pf[2])
    /\ tools = loadMetadata(configData, os)
    /\ \E pb \in PathBinaries, cb \in CacheBinaries :
          fs = [l \in Paths |->
                  IF l = WhichPath THEN pb
                  ELSE IF l = Resolve(CacheDir, CmdFileName) THEN cb
                  ELSE NoFile]
    /\ dirExists = existsSync(fs, Resolve(CacheDir, CmdFileName))
    /\ InitCalls
    /\ InitNoComponent

(* --------------------------------------------------------------- actions *)
env == <<configData, os, cvars>>

\* A call whose next step is the continuation of an already settled promise
\* (no process or network result is awaited): it runs in a microtask, before
\* any other event is handled.  This is the case after selectTool resolved,
\* after the call itself settled, and while selectTool passes a candidate
\* that is null or does not exist (getVersion then awaits nothing external).
Micro(q) ==
    \/ pc[q] \in {"selected", "done", "rejected"}
    \/ /\ pc[q] = "select"
       /\ \/ idx[q] > Len(toolLocations[q])
          \/ toolLocations[q][idx[q]] = Null
          \/ ~existsSync(fs, toolLocations[q][idx[q]])

\* the event loop runs p only when no other call has a pending continuation
Turn(p) == \A q \in Calls \ {p} : ~Micro(q)

\* lines 134-138: record the location when one was found, and return
Finish(p, found, fsys) ==
    /\ toolLocation' = [toolLocation EXCEPT ![p] = found]
    /\ IF found # Undefined /\ found # Null
       THEN /\ tools' = [tools EXCEPT ![Cmd] = Assign(@, [location |-> found])]
            /\ hist' = [hist EXCEPT ![p].recorded = TRUE]
       ELSE UNCHANGED <<tools, hist>>
    /\ pc' = [pc EXCEPT ![p] = "done"]
    /\ fs' = fsys

\* Start as it would be if the cached location were never consulted
StartUncached(p) ==
    /\ pc[p] = "idle"
    /\ Turn(p)
    /\ toolLocations' = [toolLocations EXCEPT ![p] = <<which(fs), toolCacheLocation>>]
    /\ versionRange' = [versionRange EXCEPT ![p] = tools[Cmd].versionRange]
    /\ idx' = [idx EXCEPT ![p] = 1]
    /\ toolLocation' = [toolLocation EXCEPT ![p] = Undefined]
    /\ pc' = [pc EXCEPT ![p] = "select"]
    /\ UNCHANGED <<env, tools, fs, dirExists, response, action, hist>>

\* Start as it would be if the cache path were left out of the candidates
StartPathOnly(p) ==
    /\ pc[p] = "idle"
    /\ Turn(p)
    /\ IF Location(tools) # Undefined
       THEN /\ toolLocation' = [toolLocation EXCEPT ![p] = Location(tools)]
            /\ pc' = [pc EXCEPT ![p] = "done"]
            /\ UNCHANGED <<toolLocations, versionRange, idx>>
       ELSE /\ toolLocations' = [toolLocations EXCEPT ![p] = <<which(fs)>>]
            /\ versionRange' = [versionRange EXCEPT ![p] = tools[Cmd].versionRange]
            /\ idx' = [idx EXCEPT ![p] = 1]
            /\ toolLocation' = [toolLocation EXCEPT ![p] = Undefined]
            /\ pc' = [pc EXCEPT ![p] = "select"]
    /\ UNCHANGED <<env, tools, fs, dirExists, response, action, hist>>

\* Start as it would be if the cache path came first in the candidates
StartCacheFirst(p) ==
    /\ pc[p] = "idle"
    /\ Turn(p)
    /\ IF Location(tools) # Undefined
       THEN /\ toolLocation' = [toolLocation EXCEPT ![p] = Location(tools)]
            /\ pc' = [pc EXCEPT ![p] = "done"]
            /\ UNCHANGED <<toolLocations, versionRange, idx>>
       ELSE /\ toolLocations' = [toolLocations EXCEPT ![p] =
                                    <<toolCacheLocation, which(fs)>>]
            /\ versionRange' = [versionRange EXCEPT ![p] = tools[Cmd].versionRange]
            /\ idx' = [idx EXCEPT ![p] = 1]
            /\ toolLocation' = [toolLocation EXCEPT ![p] = Undefined]
            /\ pc' = [pc EXCEPT ![p] = "select"]
    /\ UNCHANGED <<env, tools, fs, dirExists, response, action, hist>>

\* lines 41-58: the cached location is returned at once; otherwise the
\* candidate list is built and handed to selectTool
Start(p) ==
    /\ pc[p] = "idle"
    /\ Turn(p)
    /\ IF Location(tools) # Undefined
       THEN /\ toolLocation' = [toolLocation EXCEPT ![p] = Location(tools)]
            /\ pc' = [pc EXCEPT ![p] = "done"]
            /\ UNCHANGED <<toolLocations, versionRange, idx>>
       ELSE /\ toolLocations' = [toolLocations EXCEPT ![p] =
                                    <<which(fs), toolCacheLocation>>]
            /\ versionRange' = [versionRange EXCEPT ![p] = tools[Cmd].versionRange]
            /\ idx' = [idx EXCEPT ![p] = 1]
            /\ toolLocation' = [toolLocation EXCEPT ![p] = Undefined]
            /\ pc' = [pc EXCEPT ![p] = "select"]
    /\ UNCHANGED <<env, tools, fs, dirExists, response, action, hist>>

\* Probe as it would be if the loop had no break
ProbeNoBreak(p) ==
    /\ pc[p] = "select"
    /\ Turn(p)
    /\ IF idx[p] > Len(toolLocations[p])
       THEN /\ pc' = [pc EXCEPT ![p] = "selected"]
            /\ UNCHANGED <<toolLocation, idx, hist>>
       ELSE LET location == toolLocations[p][idx[p]] IN
            /\ hist' = [hist EXCEPT ![p].invoked =
                            IF location # Null /\ existsSync(fs, location)
                            THEN @ \cup {location} ELSE @]
            /\ toolLocation' =
                  IF location # Null
                     /\ Satisfies(getVersion(fs, location), versionRange[p])
                  THEN [toolLocation EXCEPT ![p] = location]
                  ELSE toolLocation
            /\ idx' = [idx EXCEPT ![p] = @ + 1]
            /\ UNCHANGED pc
    /\ UNCHANGED <<env, tools, fs, dirExists, toolLocations, versionRange,
                   response, action>>

\* lines 165-174: one iteration of selectTool's loop
Probe(p) ==
    /\ pc[p] = "select"
    /\ Turn(p)
    /\ IF idx[p] > Len(toolLocations[p])
       THEN /\ pc' = [pc EXCEPT ![p] = "selected"]
            /\ UNCHANGED <<toolLocation, idx, hist>>
       ELSE LET location == toolLocations[p][idx[p]] IN
            /\ hist' = [hist EXCEPT ![p].invoked =
                            IF location # Null /\ existsSync(fs, location)
                            THEN @ \cup {location} ELSE @]
            /\ IF location # Null
                  /\ Satisfies(getVersion(fs, location), versionRange[p])
               THEN /\ toolLocation' = [toolLocation EXCEPT ![p] = location]
                    /\ pc' = [pc EXCEPT ![p] = "selected"]
                    /\ UNCHANGED idx
               ELSE /\ idx' = [idx EXCEPT ![p] = @ + 1]
                    /\ UNCHANGED <<toolLocation, pc>>
    /\ UNCHANGED <<env, tools, fs, dirExists, toolLocations, versionRange,
                   response, action>>

\* AfterSelect as it would be if a failed resolution were an error
AfterSelectFails(p) ==
    /\ pc[p] = "selected"
    /\ Turn(p)
    /\ IF toolLocation[p] = Undefined
       THEN /\ pc' = [pc EXCEPT ![p] = "rejected"]
            /\ UNCHANGED <<tools, fs, toolLocation, hist>>
       ELSE Finish(p, toolLocation[p], fs)
    /\ UNCHANGED <<env, dirExists, toolLocations, versionRange, idx, response, action>>

\* lines 60-73 and 134-138: after selectTool, either the install prompt is
\* shown or the location is recorded and returned
AfterSelect(p) ==
    /\ pc[p] = "selected"
    /\ Turn(p)
    /\ IF toolLocation[p] = Undefined
       THEN /\ pc' = [pc EXCEPT ![p] = "prompt"]
            /\ hist' = [hist EXCEPT ![p].invoked = {}]
            /\ UNCHANGED <<tools, fs, toolLocation>>
       ELSE Finish(p, toolLocation[p], fs)
    /\ UNCHANGED <<env, dirExists, toolLocations, versionRange, idx, response, action>>

\* lines 77-93: one turn of the download loop starts a download, whose
\* write stream truncates the target file
StartDownload(p, fsys, h) ==
    /\ action' = [action EXCEPT ![p] = "undefined"]
    /\ hist' = [h EXCEPT ![p].attempts = @ + 1, ![p].mismatched = FALSE]
    /\ fs' = [fsys EXCEPT ![toolDlLocation] = PartialFile]
    /\ pc' = [pc EXCEPT ![p] = "downloading"]

\* Respond as it would be if only 'Help' kept the download from starting
RespondUnlessHelp(p, r) ==
    /\ pc[p] = "prompt"
    /\ Turn(p)
    /\ response' = [response EXCEPT ![p] = r]
    /\ dirExists' = TRUE
    /\ IF r # "Help"
       THEN /\ StartDownload(p, fs, hist)
            /\ UNCHANGED <<tools, toolLocation>>
       ELSE /\ Finish(p, toolLocation[p], fs)
            /\ UNCHANGED action
    /\ UNCHANGED <<env, toolLocations, versionRange, idx>>

\* lines 68-76 and 125-138: the answer to the 'Cannot find ...' prompt
Respond(p, r) ==
    /\ pc[p] = "prompt"
    /\ Turn(p)
    /\ response' = [response EXCEPT ![p] = r]
    /\ dirExists' = TRUE
    /\ IF r = InstallRequest
       THEN /\ StartDownload(p, fs, hist)
            /\ UNCHANGED <<tools, toolLocation>>
       ELSE /\ Finish(p, toolLocation[p], fs)
            /\ UNCHANGED action
    /\ UNCHANGED <<env, toolLocations, versionRange, idx>>

\* DownloadUtil.downloadFile resolves: the file holds what the URL served
DownloadEnd(p, content) ==
    /\ pc[p] = "downloading"
    /\ Turn(p)
    /\ fs' = [fs EXCEPT ![toolDlLocation] = content]
    /\ pc' = [pc EXCEPT ![p] = "hash"]
    /\ hist' = [hist EXCEPT ![p].cancelled = FALSE]
    /\ UNCHANGED <<env, tools, dirExists, toolLocations, versionRange, idx,
                   toolLocation, response, action>>

\* DownloadFail as it would be if the rejection were caught and the flow
\* went on to the checksum
DownloadFailSwallowed(p) ==
    /\ pc[p] = "downloading"
    /\ Turn(p)
    /\ pc' = [pc EXCEPT ![p] = "hash"]
    /\ hist' = [hist EXCEPT ![p].cancelled = FALSE, ![p].failed = TRUE]
    /\ UNCHANGED <<env, tools, fs, dirExists, toolLocations, versionRange, idx,
                   toolLocation, response, action>>

\* DownloadUtil.downloadFile rejects: the rejection leaves withProgress and
\* detectOrDownload
DownloadFail(p) ==
    /\ pc[p] = "downloading"
    /\ Turn(p)
    /\ pc' = [pc EXCEPT ![p] = "rejected"]
    /\ hist' = [hist EXCEPT ![p].cancelled = FALSE, ![p].failed = TRUE]
    /\ UNCHANGED <<env, tools, fs, dirExists, toolLocations, versionRange, idx,
                   toolLocation, response, action>>

\* lines 79-93: the user presses Cancel on the progress notification; the
\* task callback takes no cancellation token, so the download goes on
CancelProgress(p) ==
    /\ pc[p] = "downloading"
    /\ Turn(p)
    /\ ~hist[p].cancelled
    /\ hist' = [hist EXCEPT ![p].cancelled = TRUE]
    /\ UNCHANGED <<env, tools, fs, dirExists, pc, toolLocations, versionRange, idx,
                   toolLocation, response, action>>

\* fsExtra.removeSync
removeSync(fsys, location) == [fsys EXCEPT ![location] = NoFile]

\* hasha.fromFile(..., sha256)
sha256(file) == file.digest

\* Archive.unzip: a .gz is unpacked to the file extractTo, a .zip or .tar.gz
\* into the directory extractTo
unzip(fsys, zipFile, extractTo) ==
    IF endsWith(zipFile, <<"zip">>) \/ endsWith(zipFile, <<"tar", "gz">>)
    THEN [fsys EXCEPT ![Resolve(extractTo, CmdFileName)] = Bin(fsys[zipFile].out)]
    ELSE [fsys EXCEPT ![extractTo] = Bin(fsys[zipFile].out)]

Reject(p, fsys) ==
    /\ pc' = [pc EXCEPT ![p] = "rejected"]
    /\ fs' = fsys
    /\ UNCHANGED <<tools, toolLocation>>

\* lines 119-124 and 134-138: remove the download, chmod the binary (throws
\* when it does not exist), take the cache path as the location, record it
AfterUnzip(p, fsys, h) ==
    LET removed == removeSync(fsys, toolDlLocation) IN
    IF os # "win32" /\ ~existsSync(removed, toolCacheLocation)
    THEN /\ Reject(p, removed)
         /\ hist' = h
    ELSE /\ toolLocation' = [toolLocation EXCEPT ![p] = toolCacheLocation]
         /\ tools' = [tools EXCEPT ![Cmd] =
                         Assign(@, [location |-> toolCacheLocation])]
         /\ hist' = [h EXCEPT ![p].recorded = TRUE]
         /\ pc' = [pc EXCEPT ![p] = "done"]
         /\ fs' = removed

\* lines 105-118: after the loop, when action is not 'Cancel'
Install(p, fsys, h) ==
    IF \/ endsWith(toolDlLocation, <<"zip">>)
       \/ endsWith(toolDlLocation, <<"tar", "gz">>)
       \/ endsWith(toolDlLocation, <<"gz">>)
    THEN /\ pc' = [pc EXCEPT ![p] = "unzip"]
         /\ fs' = fsys
         /\ hist' = h
         /\ UNCHANGED <<tools, toolLocation>>
    ELSE AfterUnzip(p, fsys, h)

\* Hash as it would be if the comparison of the digests were inverted
HashInverted(p) ==
    /\ pc[p] = "hash"
    /\ Turn(p)
    /\ IF ~existsSync(fs, toolDlLocation)
       THEN /\ Reject(p, fs)
            /\ UNCHANGED hist
       ELSE IF sha256(fs[toolDlLocation]) = tools[Cmd].sha256sum
       THEN /\ fs' = removeSync(fs, toolDlLocation)
            /\ hist' = [hist EXCEPT ![p].mismatched = TRUE]
            /\ pc' = [pc EXCEPT ![p] = "mismatch"]
            /\ UNCHANGED <<tools, toolLocation>>
       ELSE Install(p, fs, [hist EXCEPT ![p].mismatched = FALSE])
    /\ UNCHANGED <<env, dirExists, toolLocations, versionRange, idx, response, action>>

\* lines 94-103: the digest of the downloaded file is compared with the
\* expected one; on a mismatch the file is removed and the user is asked
Hash(p) ==
    /\ pc[p] = "hash"
    /\ Turn(p)
    /\ IF ~existsSync(fs, toolDlLocation)
       THEN /\ Reject(p, fs)
            /\ UNCHANGED hist
       ELSE IF sha256(fs[toolDlLocation]) # tools[Cmd].sha256sum
       THEN /\ fs' = removeSync(fs, toolDlLocation)
            /\ hist' = [hist EXCEPT ![p].mismatched = TRUE]
            /\ pc' = [pc EXCEPT ![p] = "mismatch"]
            /\ UNCHANGED <<tools, toolLocation>>
       ELSE Install(p, fs, [hist EXCEPT ![p].mismatched = FALSE])
    /\ UNCHANGED <<env, dirExists, toolLocations, versionRange, idx, response, action>>

\* Answer as it would be if the loop went on for every answer but 'Cancel'
AnswerRetriesUnlessCancel(p, a) ==
    /\ pc[p] = "mismatch"
    /\ Turn(p)
    /\ a = "Download again" => hist[p].agains < MaxAgain
    /\ a = "undefined" => hist[p].attempts <= MaxAgain
    /\ IF a = "Download again"
       THEN /\ StartDownload(p, fs, [hist EXCEPT ![p].agains = @ + 1])
            /\ UNCHANGED <<tools, toolLocation>>
       ELSE IF a # "Cancel"
       THEN /\ StartDownload(p, fs, hist)
            /\ UNCHANGED <<tools, toolLocation>>
       ELSE /\ action' = [action EXCEPT ![p] = a]
            /\ pc' = [pc EXCEPT ![p] = "done"]
            /\ UNCHANGED <<tools, fs, toolLocation, hist>>
    /\ UNCHANGED <<env, dirExists, toolLocations, versionRange, idx, response>>

\* lines 97-105: the answer to the checksum prompt
Answer(p, a) ==
    /\ pc[p] = "mismatch"
    /\ Turn(p)
    /\ a = "Download again" => hist[p].agains < MaxAgain
    /\ IF a = "Download again"
       THEN /\ StartDownload(p, fs, [hist EXCEPT ![p].agains = @ + 1])
            /\ UNCHANGED <<tools, toolLocation>>
       ELSE /\ action' = [action EXCEPT ![p] = a]
            /\ IF a # "Cancel"
               THEN Install(p, fs, hist)
               ELSE /\ pc' = [pc EXCEPT ![p] = "done"]
                    /\ UNCHANGED <<tools, fs, toolLocation, hist>>
    /\ UNCHANGED <<env, dirExists, toolLocations, versionRange, idx, response>>

\* lines 107-124: Archive.unzip resolves, or rejects when the file is not a
\* complete archive
UnzipEnd(p) ==
    /\ pc[p] = "unzip"
    /\ Turn(p)
    /\ IF fs[toolDlLocation].kind # "archive"
       THEN /\ Reject(p, fs)
            /\ UNCHANGED hist
       ELSE AfterUnzip(p,
                unzip(fs, toolDlLocation,
                      IF endsWith(toolDlLocation, <<"zip">>)
                           \/ endsWith(toolDlLocation, <<"tar", "gz">>)
                      THEN CacheDir ELSE toolCacheLocation),
                [hist EXCEPT ![p].extracted = TRUE])
    /\ UNCHANGED <<env, dirExists, toolLocations, versionRange, idx, response, action>>

\* resetConfiguration as it would be if loadMetadata worked on the
\* requirements object itself instead of a deep copy
resetConfigurationInPlace ==
    /\ \A q \in Calls : ~Micro(q)
    /\ tools' = loadMetadata(configData, os)
    /\ configData' = tools'
    /\ UNCHANGED <<os, fs, dirExists, pc, toolLocations, versionRange, idx,
                   toolLocation, response, action, hist, cvars>>

\* lines 37-39
resetConfiguration ==
    /\ \A q \in Calls : ~Micro(q)
    /\ tools' = loadMetadata(configData, os)
    /\ UNCHANGED <<env, fs, dirExists, pc, toolLocations, versionRange, idx,
                   toolLocation, response, action, hist>>

\* the promise of a call has settled; the caller may call again
Return(p) ==
    /\ pc[p] \in {"done", "rejected"}
    /\ Turn(p)
    /\ pc' = [pc EXCEPT ![p] = "idle"]
    /\ toolLocations' = [toolLocations EXCEPT ![p] = <<>>]
    /\ versionRange' = [versionRange EXCEPT ![p] = VersionRange]
    /\ idx' = [idx EXCEPT ![p] = 1]
    /\ toolLocation' = [toolLocation EXCEPT ![p] = Undefined]
    /\ response' = [response EXCEPT ![p] = "none"]
    /\ action' = [action EXCEPT ![p] = "none"]
    /\ hist' = [hist EXCEPT ![p] = NoHist]
    /\ UNCHANGED <<env, tools, fs, dirExists>>

Next ==
    \/ \E p \in Calls : Start(p)
    \/ \E p \in Calls : Probe(p)
    \/ \E p \in Calls : AfterSelect(p)
    \/ \E p \in Calls, r \in Responses : Respond(p, r)
    \/ \E p \in Calls, c \in {GoodArchive, BadArchive} : DownloadEnd(p, c)
    \/ \E p \in Calls : DownloadFail(p)
    \/ \E p \in Calls : CancelProgress(p)
    \/ \E p \in Calls : Hash(p)
    \/ \E p \in Calls, a \in Actions : Answer(p, a)
    \/ \E p \in Calls : UnzipEnd(p)
    \/ \E p \in Calls : Return(p)
    \/ resetConfiguration

Spec == Init /\ [][Next]_vars

\* the steps by which call p goes on once it has started: answers of the
\* user, results of the binary, of the download, of the digest and of the
\* extraction, and the continuation of the caller
Progress(p) ==
    \/ Probe(p)
    \/ AfterSelect(p)
    \/ \E r \in Responses : Respond(p, r)
    \/ \E c \in {GoodArchive, BadArchive} : DownloadEnd(p, c)
    \/ DownloadFail(p)
    \/ Hash(p)
    \/ \E a \in Actions : Answer(p, a)
    \/ UnzipEnd(p)
    \/ Return(p)

\* a call and one call that overlaps it
Pair == {1, NumCalls}

\* the steps of Next taken by the two calls of Pair
NextFair ==
    \/ \E p \in Pair : Start(p)
    \/ \E p \in Pair : Progress(p)
    \/ \E p \in Pair : CancelProgress(p)
    \/ resetConfiguration

\* every pending event of a started call is eventually handled by the
\* event loop, although other calls' continuations may run before it
SpecFair ==
    /\ Init
    /\ [][NextFair]_vars
    /\ \A p \in Pair : SF_vars(Progress(p))

TypeOK ==
    /\ pc \in [Calls -> {"idle", "select", "selected", "prompt", "downloading",
                          "hash", "mismatch", "unzip", "done", "rejected"}]
    /\ DOMAIN fs = Paths

(* ------------------------------------------------ selectTool on its own *)
\* selectTool applied to arbitrary candidate lists, ranges and files
SelectPaths == {Null, WhichPath, OtherPath, Resolve(CacheDir, CmdFileName)}
SelectFiles == {NoFile, Bin(<<V090>>), Bin(<<JunkLine, V120, V090>>), Bin(<<JunkLine>>)}

Lists(n) == UNION { [1..k -> SelectPaths] : k \in 0..n }

InitSelect ==
    /\ os = "linux"
    /\ configData = Config(<<"kn", "gz">>)
    /\ tools = loadMetadata(configData, os)
    /\ \E wf \in SelectFiles, cf \in SelectFiles, of \in SelectFiles :
          fs = [l \in Paths |->
                  IF l = WhichPath THEN wf
                  ELSE IF l = Resolve(CacheDir, CmdFileName) THEN cf
                  ELSE IF l = OtherPath THEN of
                  ELSE NoFile]
    /\ dirExists = TRUE
    /\ pc = [p \in Calls |-> IF p = 1 THEN "select" ELSE "idle"]
    /\ \E locations \in Lists(MaxLocations) :
          toolLocations = [p \in Calls |-> IF p = 1 THEN locations ELSE <<>>]
    /\ \E range \in {VersionRange, OtherRange} :
          versionRange = [p \in Calls |-> IF p = 1 THEN range ELSE VersionRange]
    /\ idx = [p \in Calls |-> 1]
    /\ toolLocation = [p \in Calls |-> Undefined]
    /\ response = [p \in Calls |-> "none"]
    /\ action = [p \in Calls |-> "none"]
    /\ hist = [p \in Calls |-> NoHist]
    /\ InitNoComponent

NextSelect == \E p \in {1} : Probe(p)

SpecSelect == InitSelect /\ [][NextSelect]_vars

(* ---------------------------------------------- loadMetadata on its own *)
\* loadMetadata applied to requirements of two tools, each with no platform
\* key or with a platform key listing some platforms, for three platforms
LoadPlatforms == {"win32", "linux", "darwin"}

BaseEntry(f) ==
    [description |-> "tool", versionRange |-> VersionRange, sha256sum |-> BadSum,
     dlFileName |-> f, cmdFileName |-> CmdFileName]

\* overrides: of a field the entry has, or of that field and a new one
Overrides ==
    { [dlFileName |-> <<"kn", "zip">>],
      [dlFileName |-> <<"kn", "gz">>, url |-> "https://host/kn.gz"] }

PlatformKeys ==
    UNION { [S -> Overrides] : S \in {{}, {"win32"}, {"linux"}, {"win32", "linux"}} }

LoadEntries ==
    { BaseEntry(<<"kn", "bin">>) }
        \cup { Assign(BaseEntry(<<"kn", "bin">>), [platform |-> pk]) : pk \in PlatformKeys }

InitLoad ==
    /\ os \in LoadPlatforms
    /\ \E e1 \in LoadEntries, e2 \in LoadEntries : configData = [kn |-> e1, tkn |-> e2]
    /\ tools = [o \in {} |-> BaseEntry(<<"kn", "bin">>)]
    /\ fs = [l \in Paths |-> NoFile]
    /\ dirExists = FALSE
    /\ InitCalls
    /\ InitNoComponent

\* line 20: the registry is loaded
Load ==
    /\ pc[1] = "idle"
    /\ tools' = loadMetadata(configData, os)
    /\ pc' = [pc EXCEPT ![1] = "done"]
    /\ UNCHANGED <<env, fs, dirExists, toolLocations, versionRange, idx,
                   toolLocation, response, action, hist>>

NextLoad == Load

SpecLoad == InitLoad /\ [][NextLoad]_vars

(* ====================================================== Component commands *)
\* the variables of the tool flow, which the Component commands leave alone
tvars == <<configData, os, tools, fs, dirExists, pc, toolLocations,
           versionRange, idx, toolLocation, response, action, hist>>

\* a command line built by KnAPI (or written in place), kept as the name of
\* its builder and the list of its arguments in the order of the call
Command(api, args) == [api |-> api, args |-> args]

\* KnAPI.unlinkComponents(project, app, comp1, comp2)
unlinkComponents(project, app, comp1, comp2) ==
    Command("unlinkComponents", <<project, app, comp1, comp2>>)
\* KnAPI.describeComponentJson(project, app, component)
describeComponentJson(project, app, c) ==
    Command("describeComponentJson", <<project, app, c>>)
\* KnAPI.pushComponent()
pushComponent == Command("pushComponent", <<>>)
\* kn.deleteComponent(component) and kn.undeployComponent(component)
deleteComponent(c) == Command("deleteComponent", <<c>>)
undeployComponent(c) == Command("undeployComponent", <<c>>)

\* KnativeItem.getKnativeCmdData: the tree item the command was invoked on,
\* or else the component the user picks among those the condition admits,
\* or nothing when a pick is dismissed
getKnativeCmdData(treeItem, admitted) ==
    IF treeItem # Dismissed
    THEN {treeItem}
    ELSE admitted \cup {Dismissed}

\* kn.execute(...) is called: the command starts
Issue(i, cmd) == [i EXCEPT !.issued = Append(@, cmd)]
\* the promise of the invocation settles
Settle(i, kind, value) ==
    [i EXCEPT !.pc = "done", !.result = [kind |-> kind, value |-> value]]
\* how a command can end
Outcomes == {"ok", "error"}

\* the keys of an object, in their order
RECURSIVE KeysOf(_)
KeysOf(S) ==
    IF S = {} THEN <<>>
    ELSE LET x == CHOOSE y \in S : \A z \in S : \E i, j \in 1..Len(CompNames) :
                      /\ CompNames[i] = y /\ CompNames[j] = z /\ i <= j
         IN <<x>> \o KeysOf(S \ {x})

Range(q) == { q[k] : k \in DOMAIN q }

InitComp ==
    /\ os = "linux"
    /\ configData = Config(<<"kn", "gz">>)
    /\ tools = loadMetadata(configData, os)
    /\ fs = [l \in Paths |-> NoFile]
    /\ dirExists = FALSE
    /\ InitCalls
    /\ contextValue \in [Comps -> ContextTypes]
    /\ globalState = NoPush
    /\ inv = IdleInv
    /\ pending = {}
    /\ unhandled = {}
    /\ lastPushed = <<>>

\* a command of the extension is invoked, on a tree item or from the
\* command palette, once the previous invocation has settled; the commands
\* earlier invocations left running are followed no further
Begin(op, treeItem, first) ==
    /\ inv.pc \in {"idle", "done"}
    /\ inv' = [IdleInv EXCEPT !.op = op, !.pc = first, !.component = treeItem]
    /\ pending' = {}
    /\ unhandled' = {}

\* a command that was started without being awaited ends; its rejection
\* has no handler
PendingEnds ==
    /\ \E cmd \in pending, outcome \in Outcomes :
          /\ pending' = pending \ {cmd}
          /\ unhandled' = IF outcome = "error" THEN unhandled \cup {cmd} ELSE unhandled
    /\ UNCHANGED <<tvars, contextValue, globalState, inv, lastPushed>>

(* ------------------------------------------------------------ del, lines 63-81 *)
\* the components the condition of undeploy, link and unlink admits
Pushed == {c \in Comps : contextValue[c] = ContextType.COMPONENT_PUSHED}

DelBegin ==
    /\ \E treeItem \in Comps \cup {Dismissed} : Begin("del", treeItem, "del.select")
    /\ UNCHANGED <<tvars, contextValue, globalState, lastPushed>>

\* lines 64-70
DelSelected ==
    /\ inv.pc = "del.select"
    /\ \E component \in getKnativeCmdData(inv.component, Comps) :
          inv' = IF component = Dismissed
                 THEN Settle(inv, "return", "null")
                 ELSE [inv EXCEPT !.component = component, !.pc = "del.confirm"]
    /\ UNCHANGED <<tvars, contextValue, globalState, pending, unhandled, lastPushed>>

\* lines 70-77 and 101: the answer to the warning; on 'Yes' the function
\* given to execFunctionWithProgress starts
DelAnswered ==
    /\ inv.pc = "del.confirm"
    /\ \E value \in {"Yes", "Cancel", Dismissed} :
          inv' = IF value # "Yes"
                 THEN Settle([inv EXCEPT !.value = value], "return", "undefined")
                 ELSE IF contextValue[inv.component] \in {ContextType.COMPONENT_NO_CONTEXT, ContextType.COMPONENT_PUSHED}
                 THEN [Issue(inv, describeComponentJson(Project, App, inv.component))
                          EXCEPT !.value = value, !.pc = "del.describe"]
                 ELSE [Issue(inv, deleteComponent(inv.component))
                          EXCEPT !.value = value, !.pc = "del.delete"]
    /\ UNCHANGED <<tvars, contextValue, globalState, pending, unhandled, lastPushed>>

\* the unlink commands forEach starts, one per key
UnlinkAll(component, keys) ==
    [k \in 1..Len(keys) |-> unlinkComponents(Project, App, keys[k], component)]

\* lines 101-107, 75-77: the description arrives; forEach calls the async
\* callback for every key, which starts the unlink command and is not
\* awaited; unlinkAllComponents returns and deleteComponent is called
DelDescribed ==
    /\ inv.pc = "del.describe"
    /\ \E outcome \in Outcomes :
          IF outcome = "error"
          THEN /\ inv' = Settle(inv, "reject", "Failed to delete Component with error")
               /\ UNCHANGED pending
          ELSE \E linked \in SUBSET (Comps \ {inv.component}) :
                  LET keys == KeysOf(linked)
                      started == UnlinkAll(inv.component, keys)
                  IN /\ inv' = [Issue([inv EXCEPT !.issued = @ \o started,
                                                   !.todo = keys],
                                      deleteComponent(inv.component))
                                   EXCEPT !.pc = "del.delete"]
                     /\ pending' = pending \cup Range(started)
    /\ UNCHANGED <<tvars, contextValue, globalState, unhandled, lastPushed>>

\* lines 77-79
DelDeleted ==
    /\ inv.pc = "del.delete"
    /\ \E outcome \in Outcomes :
          inv' = IF outcome = "ok"
                 THEN Settle(inv, "return", "Component successfully deleted")
                 ELSE Settle(inv, "reject", "Failed to delete Component with error")
    /\ UNCHANGED <<tvars, contextValue, globalState, pending, unhandled, lastPushed>>

(* ------------------------------------------ push, lastPush, lines 258-317 *)
\* the command executed in the terminal, with its working directory
InTerminal(i, cmd, cwd) == [i EXCEPT !.terminal = Append(@, [cmd |-> cmd, cwd |-> cwd])]

\* lines 275-279 as they would be if the push command were stored before
\* the choice is looked at
AfterChoiceStoresFirst(i, choice) ==
    /\ globalState' = [pushCmd |-> pushComponent,
                       contextPath |-> contextPath(i.component), stored |-> TRUE]
    /\ IF choice \in {"null", Dismissed}
       THEN /\ inv' = Settle(i, "return", "null")
            /\ UNCHANGED <<contextValue, lastPushed>>
       ELSE /\ inv' = Settle(InTerminal(i, pushComponent, contextPath(i.component)),
                             "return", "undefined")
            /\ contextValue' = [contextValue EXCEPT ![i.component] = ContextType.COMPONENT_PUSHED]
            /\ lastPushed' = contextPath(i.component)

\* lines 275-279: handleMigratedComponent has returned choice.  The value
\* given to globalState.update is the one globalState.get returns from then
\* on; the returned Thenable is not awaited.
AfterChoice(i, choice) ==
    IF choice \in {"null", Dismissed}
    THEN /\ inv' = Settle(i, "return", "null")
         /\ UNCHANGED <<contextValue, globalState, lastPushed>>
    ELSE /\ globalState' = [pushCmd |-> pushComponent,
                            contextPath |-> contextPath(i.component), stored |-> TRUE]
         /\ inv' = Settle(InTerminal(i, pushComponent, contextPath(i.component)),
                          "return", "undefined")
         /\ contextValue' = [contextValue EXCEPT ![i.component] = ContextType.COMPONENT_PUSHED]
         /\ lastPushed' = contextPath(i.component)

PushBegin ==
    /\ \E treeItem \in Comps \cup {Dismissed} : Begin("push", treeItem, "push.select")
    /\ UNCHANGED <<tvars, contextValue, globalState, lastPushed>>

\* lines 268-273, 283-286
PushSelected ==
    /\ inv.pc = "push.select"
    /\ \E component \in getKnativeCmdData(inv.component,
              {c \in Comps : contextValue[c] \in {ContextType.COMPONENT_PUSHED,
                                                   ContextType.COMPONENT}}) :
          inv' = IF component = Dismissed
                 THEN Settle(inv, "return", "null")
                 ELSE [Issue([inv EXCEPT !.component = component],
                             Command("oc get DeploymentConfig", <<component, App, Project>>))
                          EXCEPT !.pc = "push.migrated"]
    /\ UNCHANGED <<tvars, contextValue, globalState, pending, unhandled, lastPushed>>

\* lines 286-291, 305-307: the migration check fails (the command, or
\* JSON.parse of its output), or gives a truthy or a falsy value
PushMigrated ==
    /\ inv.pc = "push.migrated"
    /\ \E undeployRequired \in {"error", "true", "false"} :
          CASE undeployRequired = "error" ->
                   AfterChoice([inv EXCEPT !.migrated = undeployRequired], "Continue")
            [] undeployRequired = "false" ->
                   AfterChoice([inv EXCEPT !.migrated = undeployRequired], Dismissed)
            [] undeployRequired = "true" ->
                   /\ inv' = [inv EXCEPT !.pc = "push.warn", !.migrated = undeployRequired]
                   /\ UNCHANGED <<contextValue, globalState, lastPushed>>
    /\ UNCHANGED <<tvars, pending, unhandled>>

\* lines 291-303: the answer to the 'must be undeployed' warning
PushWarned ==
    /\ inv.pc = "push.warn"
    /\ \E choice \in {"Undeploy", "Help", "Cancel", Dismissed} :
          CASE choice = "Undeploy" ->
                   /\ inv' = [inv EXCEPT !.value = choice, !.pc = "undeploy.select"]
                   /\ UNCHANGED <<contextValue, globalState, lastPushed>>
            [] choice = "Help" ->
                   /\ inv' = [inv EXCEPT !.value = choice]
                   /\ UNCHANGED <<contextValue, globalState, lastPushed>>
            [] choice = "Cancel" -> AfterChoice([inv EXCEPT !.value = choice], "null")
            [] choice = Dismissed -> AfterChoice([inv EXCEPT !.value = choice], choice)
    /\ UNCHANGED <<tvars, pending, unhandled>>

(* ------------------------------------------------- undeploy, lines 83-98 *)
\* undeploy's promise settles: for the command itself, or inside
\* handleMigratedComponent (lines 294-295, 305-307) where a result makes it
\* return null and a rejection is caught and makes it return 'Continue'
UndeployEnd(i, kind, value) ==
    IF i.op = "undeploy"
    THEN /\ inv' = Settle(i, kind, value)
         /\ UNCHANGED <<contextValue, globalState, lastPushed>>
    ELSE IF kind = "reject"
    THEN AfterChoice(i, "Continue")
    ELSE AfterChoice(i, "null")

UndeployBegin ==
    /\ \E treeItem \in Comps \cup {Dismissed} : Begin("undeploy", treeItem, "undeploy.select")
    /\ UNCHANGED <<tvars, contextValue, globalState, lastPushed>>

\* lines 84-91
UndeploySelected ==
    /\ inv.pc = "undeploy.select"
    /\ \E component \in getKnativeCmdData(inv.component, Pushed) :
          IF component = Dismissed
          THEN UndeployEnd(inv, "return", "null")
          ELSE /\ inv' = [inv EXCEPT !.component = component, !.pc = "undeploy.confirm"]
               /\ UNCHANGED <<contextValue, globalState, lastPushed>>
    /\ UNCHANGED <<tvars, pending, unhandled>>

\* undeploy as it would be if it went on for every answer but 'Cancel'
UndeployAnsweredUnlessCancel ==
    /\ inv.pc = "undeploy.confirm"
    /\ \E value \in {"Yes", "Cancel", Dismissed} :
          IF value = "Cancel"
          THEN UndeployEnd([inv EXCEPT !.other = value], "return", "undefined")
          ELSE /\ inv' = [Issue(inv, undeployComponent(inv.component))
                             EXCEPT !.other = value, !.pc = "undeploy.run"]
               /\ UNCHANGED <<contextValue, globalState, lastPushed>>
    /\ UNCHANGED <<tvars, pending, unhandled>>

\* lines 91-94
UndeployAnswered ==
    /\ inv.pc = "undeploy.confirm"
    /\ \E value \in {"Yes", "Cancel", Dismissed} :
          IF value # "Yes"
          THEN UndeployEnd([inv EXCEPT !.other = value], "return", "undefined")
          ELSE /\ inv' = [Issue(inv, undeployComponent(inv.component))
                             EXCEPT !.other = value, !.pc = "undeploy.run"]
               /\ UNCHANGED <<contextValue, globalState, lastPushed>>
    /\ UNCHANGED <<tvars, pending, unhandled>>

\* lines 94-96
UndeployRan ==
    /\ inv.pc = "undeploy.run"
    /\ \E outcome \in Outcomes :
          IF outcome = "ok"
          THEN UndeployEnd(inv, "return", "Component successfully undeployed")
          ELSE UndeployEnd(inv, "reject", "Failed to undeploy Component with error")
    /\ UNCHANGED <<tvars, pending, unhandled>>

(* ----------------------------------------------- lastPush, lines 310-317 *)
LastPushBegin ==
    /\ Begin("lastPush", Dismissed, "lastPush.get")
    /\ UNCHANGED <<tvars, contextValue, globalState, lastPushed>>

\* lines 311-316: globalState.get('PUSH') is undefined while nothing was
\* stored, and reading a property of undefined throws a TypeError
LastPushGot ==
    /\ inv.pc = "lastPush.get"
    /\ LET getPushCmd == globalState
       IN inv' = IF ~getPushCmd.stored
                 THEN Settle(inv, "reject", "TypeError")
                 ELSE IF getPushCmd.pushCmd.api # "" /\ getPushCmd.contextPath # <<>>
                 THEN Settle(InTerminal(inv, getPushCmd.pushCmd, getPushCmd.contextPath),
                             "return", "undefined")
                 ELSE Settle(inv, "reject", "No existing push command found")
    /\ UNCHANGED <<tvars, contextValue, globalState, pending, unhandled, lastPushed>>

(* ------------------------------------------ linkComponent, lines 207-238 *)
\* KnAPI.listComponentPorts(project, app, component)
listComponentPorts(project, app, c) == Command("listComponentPorts", <<project, app, c>>)
\* KnAPI.linkComponentTo(project, app, component, componentToLink, port)
linkComponentTo(project, app, c, componentToLink, port) ==
    Command("linkComponentTo", <<project, app, c, componentToLink, port>>)

\* what the ports command prints: a text is the list of its pieces, and
\* every declared port is followed by a comma
RECURSIVE PortsStdout(_)
PortsStdout(n) ==
    IF n = 0 THEN <<>>
    ELSE PortsStdout(n - 1) \o << <<"8080/TCP", "8443/TCP", "8778/TCP">>[n], "," >>

\* text.split(','): the pieces between the commas ('' where there is none)
RECURSIVE split(_, _)
split(text, field) ==
    IF text = <<>> THEN <<field>>
    ELSE IF Head(text) = "," THEN <<field>> \o split(Tail(text), "")
    ELSE split(Tail(text), Head(text))
\* array.slice(0, end)
slice(array, end) == SubSeq(array, 1, end)
\* lines 222-223
ParsePorts(stdout) ==
    LET ports == split(stdout, "") IN slice(ports, Len(ports) - 1)

LinkBegin ==
    /\ \E treeItem \in Comps \cup {Dismissed} : Begin("link", treeItem, "link.select")
    /\ UNCHANGED <<tvars, contextValue, globalState, lastPushed>>

\* lines 208-215
LinkSelected ==
    /\ inv.pc = "link.select"
    /\ \E component \in getKnativeCmdData(inv.component, Pushed) :
          inv' = IF component = Dismissed
                 THEN Settle(inv, "return", "null")
                 ELSE [inv EXCEPT !.component = component, !.pc = "link.components"]
    /\ UNCHANGED <<tvars, contextValue, globalState, pending, unhandled, lastPushed>>

\* lines 215-217: the components of the application arrive
LinkComponents ==
    /\ inv.pc = "link.components"
    /\ \E outcome \in Outcomes :
          inv' = IF outcome = "error"
                 THEN Settle(inv, "reject", "error")
                 ELSE LET componentPresent == {c \in Comps : contextValue[c] # ContextType.COMPONENT}
                      IN IF Cardinality(componentPresent) = 1
                         THEN Settle(inv, "reject", "You have no Components available to link")
                         ELSE [inv EXCEPT !.pc = "link.pick"]
    /\ UNCHANGED <<tvars, contextValue, globalState, pending, unhandled, lastPushed>>

\* lines 217-220
LinkPicked ==
    /\ inv.pc = "link.pick"
    /\ \E componentToLink \in ({c \in Comps : contextValue[c] # ContextType.COMPONENT} \ {inv.component})
                                  \cup {Dismissed} :
          inv' = IF componentToLink = Dismissed
                 THEN Settle(inv, "return", "null")
                 ELSE [Issue(inv, listComponentPorts(Project, App, componentToLink))
                          EXCEPT !.other = componentToLink, !.pc = "link.ports"]
    /\ UNCHANGED <<tvars, contextValue, globalState, pending, unhandled, lastPushed>>

\* lines 233-234: the link command is started
Link(i, port) ==
    [Issue(i, linkComponentTo(Project, App, i.component, i.other, port))
        EXCEPT !.value = port, !.pc = "link.run"]

\* lines 220-234: the ports arrive
LinkPorts ==
    /\ inv.pc = "link.ports"
    /\ \E outcome \in Outcomes, n \in 0..MaxItems :
          inv' = IF outcome = "error"
                 THEN Settle(inv, "reject", "error")
                 ELSE LET ports == ParsePorts(PortsStdout(n))
                          i == [inv EXCEPT !.todo = ports]
                      IN IF Len(ports) = 1 THEN Link(i, ports[1])
                         ELSE IF Len(ports) > 1 THEN [i EXCEPT !.pc = "link.port"]
                         ELSE Settle(i, "reject", "has no Ports declared")
    /\ UNCHANGED <<tvars, contextValue, globalState, pending, unhandled, lastPushed>>

\* lines 228, 233-234: the port is picked, or the pick dismissed
LinkPort ==
    /\ inv.pc = "link.port"
    /\ \E port \in Range(inv.todo) \cup {Dismissed} : inv' = Link(inv, port)
    /\ UNCHANGED <<tvars, contextValue, globalState, pending, unhandled, lastPushed>>

\* lines 234-236
LinkRan ==
    /\ inv.pc = "link.run"
    /\ \E outcome \in Outcomes :
          inv' = IF outcome = "ok"
                 THEN Settle(inv, "return", "successfully linked")
                 ELSE Settle(inv, "reject", "Failed to link component with error")
    /\ UNCHANGED <<tvars, contextValue, globalState, pending, unhandled, lastPushed>>

(* ---------------------------------------- unlinkComponent, lines 163-185 *)
\* line 181: the unlink command of unlinkComponent
UnlinkOne(component, compName) == unlinkComponents(Project, App, component, compName)

UnlinkBegin ==
    /\ \E treeItem \in Comps \cup {Dismissed} : Begin("unlink", treeItem, "unlink.select")
    /\ UNCHANGED <<tvars, contextValue, globalState, lastPushed>>

\* lines 165-172, 143
UnlinkSelected ==
    /\ inv.pc = "unlink.select"
    /\ \E component \in getKnativeCmdData(inv.component, Pushed) :
          inv' = IF component = Dismissed
                 THEN Settle(inv, "return", "null")
                 ELSE [Issue([inv EXCEPT !.component = component],
                             describeComponentJson(Project, App, component))
                          EXCEPT !.pc = "unlink.describe"]
    /\ UNCHANGED <<tvars, contextValue, globalState, pending, unhandled, lastPushed>>

\* lines 172-178: the description arrives, with or without linkedComponents
UnlinkDescribed ==
    /\ inv.pc = "unlink.describe"
    /\ \E outcome \in Outcomes \cup {"none"} :
          IF outcome = "error" THEN inv' = Settle(inv, "reject", "error")
          ELSE IF outcome = "none"
          THEN inv' = Settle(inv, "reject", "No linked Components found")
          ELSE \E linked \in SUBSET (Comps \ {inv.component}) :
                  inv' = [inv EXCEPT !.todo = KeysOf(linked), !.pc = "unlink.pick"]
    /\ UNCHANGED <<tvars, contextValue, globalState, pending, unhandled, lastPushed>>

\* lines 178-181
UnlinkPicked ==
    /\ inv.pc = "unlink.pick"
    /\ \E compName \in Range(inv.todo) \cup {Dismissed} :
          inv' = IF compName = Dismissed
                 THEN Settle(inv, "return", "null")
                 ELSE [Issue(inv, UnlinkOne(inv.component, compName))
                          EXCEPT !.other = compName, !.pc = "unlink.run"]
    /\ UNCHANGED <<tvars, contextValue, globalState, pending, unhandled, lastPushed>>

\* lines 181-183
UnlinkRan ==
    /\ inv.pc = "unlink.run"
    /\ \E outcome \in Outcomes :
          inv' = IF outcome = "ok"
                 THEN Settle(inv, "return", "successfully unlinked")
                 ELSE Settle(inv, "reject", "Failed to unlink Component with error")
    /\ UNCHANGED <<tvars, contextValue, globalState, pending, unhandled, lastPushed>>

(* ------------------------------- create commands, lines 30-61 and 370-501 *)
\* the awaits of a create function, in the order of its text: a prompt
\* (dismissed: return null), an awaited call that may throw, the test of
\* the binary files found, the clone question, and the create command
Step(kind, name) == [kind |-> kind, name |-> name]

\* lines 375-390
FromLocal ==
    << Step("prompt", "workspace folder"), Step("await", "getComponents"), Step("prompt", "component name"),
       Step("prompt", "type"), Step("prompt", "type version"), Step("create", "createComponentFromFolder") >>
\* lines 400-413 (after the application of lines 395-399)
FromFolder ==
    << Step("await", "getComponents"), Step("prompt", "component name"),
       Step("prompt", "type"), Step("prompt", "type version"), Step("create", "createComponentFromFolder") >>
\* lines 421-459
FromGit ==
    << Step("prompt", "workspace folder"), Step("prompt", "git repository URI"), Step("await", "fetchTag"),
       Step("prompt", "git reference"), Step("await", "getComponents"), Step("prompt", "component name"),
       Step("prompt", "type"), Step("prompt", "type version"), Step("clone", "git.clone"),
       Step("create", "createComponentFromGit") >>
\* lines 471-499
FromBinary ==
    << Step("prompt", "workspace folder"), Step("glob", "globby.sync"),
       Step("prompt", "binary file"), Step("await", "getComponents"), Step("prompt", "component name"),
       Step("prompt", "type"), Step("prompt", "type version"), Step("create", "createComponentFromBinary") >>

\* the function a command runs once it has its application
Script(op) ==
    CASE op \in {"createFromLocal", "Workspace Directory"} -> FromLocal
      [] op = "createFromFolder" -> FromFolder
      [] op \in {"createFromGit", "Git Repository"} -> FromGit
      [] op \in {"createFromBinary", "Binary File"} -> FromBinary
\* lines 33-46
SourceTypes == {"Git Repository", "Binary File", "Workspace Directory"}
CreateOps == {"create", "createFromLocal", "createFromFolder", "createFromGit",
              "createFromBinary"}

\* line 60: a rejection of the function create has called is replaced
Failure(i) ==
    IF i.op = "create" /\ i.value \in SourceTypes
    THEN "Failed to create Component with error"
    ELSE "error"

\* the function goes on to its next await; the create command is started
\* as soon as it is reached
Advance(i, rest) ==
    IF rest # <<>> /\ Head(rest).kind = "create"
    THEN [Issue(i, Command(Head(rest).name, <<i.component>>))
             EXCEPT !.todo = Tail(rest), !.pc = "create.run"]
    ELSE [i EXCEPT !.todo = rest]

\* lines 30-32, 371-374, 395-399: the command is invoked; with a context
\* the application is known, without one it is asked for (createFromFolder
\* always asks)
CreateBegin ==
    /\ \E op \in CreateOps, context \in {App, Dismissed} :
          /\ Begin(op, context, "create.step")
          /\ op = "createFromFolder" => context = Dismissed
    /\ UNCHANGED <<tvars, contextValue, globalState, lastPushed>>

\* the first await: the application
CreateApplication ==
    /\ inv.pc = "create.step"
    /\ inv.todo = <<>>
    /\ inv.answered = {}
    /\ \E application \in {App, Dismissed} :
          /\ inv.component # Dismissed => application = inv.component
          /\ inv' = IF application = Dismissed
                 THEN Settle(inv, "return", "null")
                 ELSE LET i == [inv EXCEPT !.component = application,
                                           !.answered = {"application"}]
                      IN IF inv.op = "create"
                         THEN [i EXCEPT !.todo = <<Step("prompt", "source type")>>]
                         ELSE Advance(i, Script(inv.op))
    /\ UNCHANGED <<tvars, contextValue, globalState, pending, unhandled, lastPushed>>

\* a step as it would be if the dismissal of the type version prompt were
\* not tested
CreateStepNoVersionTest ==
    /\ inv.pc = "create.step"
    /\ inv.todo # <<>>
    /\ LET step == Head(inv.todo)
           rest == Tail(inv.todo)
       IN \E answer \in {"answer", Dismissed, "error"} \cup SourceTypes :
            /\ answer \in SourceTypes => step.name = "source type"
            /\ answer = "answer" => step.name # "source type"
            /\ inv' =
                 IF answer = "error" THEN Settle(inv, "reject", Failure(inv))
                 ELSE CASE step.kind = "prompt" ->
                             IF answer = Dismissed /\ step.name = "type version"
                             THEN Advance(inv, rest)
                             ELSE IF answer = Dismissed
                             THEN Settle(inv, "return", "null")
                             ELSE LET i == [inv EXCEPT !.answered = @ \cup {step.name}]
                                  IN IF step.name = "source type"
                                     THEN Advance([i EXCEPT !.value = answer], Script(answer))
                                     ELSE Advance(i, rest)
                        [] step.kind = "await" -> Advance(inv, rest)
                        [] step.kind = "glob" ->
                             IF answer = Dismissed
                             THEN Settle(inv, "return", "No binary file present")
                             ELSE Advance(inv, rest)
                        [] step.kind = "clone" -> Advance(inv, rest)
    /\ UNCHANGED <<tvars, contextValue, globalState, pending, unhandled, lastPushed>>

\* the await the function is at ends: the prompt is answered or dismissed,
\* the call returns or throws; no binary file is found or some are
\* (line 478); the clone question is answered and the clone, if asked for,
\* done (lines 457-458)
CreateStep ==
    /\ inv.pc = "create.step"
    /\ inv.todo # <<>>
    /\ LET step == Head(inv.todo)
           rest == Tail(inv.todo)
       IN \E answer \in {"answer", Dismissed, "error"} \cup SourceTypes :
            /\ answer \in SourceTypes => step.name = "source type"
            /\ answer = "answer" => step.name # "source type"
            /\ inv' =
                 IF answer = "error" THEN Settle(inv, "reject", Failure(inv))
                 ELSE CASE step.kind = "prompt" ->
                             IF answer = Dismissed
                             THEN Settle(inv, "return", "null")
                             ELSE LET i == [inv EXCEPT !.answered = @ \cup {step.name}]
                                  IN IF step.name = "source type"
                                     THEN Advance([i EXCEPT !.value = answer], Script(answer))
                                     ELSE Advance(i, rest)
                        [] step.kind = "await" -> Advance(inv, rest)
                        [] step.kind = "glob" ->
                             IF answer = Dismissed
                             THEN Settle(inv, "return", "No binary file present")
                             ELSE Advance(inv, rest)
                        [] step.kind = "clone" -> Advance(inv, rest)
    /\ UNCHANGED <<tvars, contextValue, globalState, pending, unhandled, lastPushed>>

\* lines 390-391, 413-414, 459-460, 499-500, 60
CreateRan ==
    /\ inv.pc = "create.run"
    /\ \E outcome \in Outcomes :
          inv' = IF outcome = "ok"
                 THEN Settle(inv, "return", "Component successfully created")
                 ELSE Settle(inv, "reject", Failure(inv))
    /\ UNCHANGED <<tvars, contextValue, globalState, pending, unhandled, lastPushed>>

(* ------------------------------------------------- import, lines 503-594 *)
\* the first n storages or routes of the component
Items(n) == SubSeq(<<"first", "second", "third", "fourth">>, 1, n)
\* the oc commands written in place and the KnAPI commands of import
ocGet(kind, name) == Command("oc get", <<kind, name>>)
createImported(api, c) == Command(api, <<Project, App, c>>)
createStorage(storageName) == Command("createStorage", <<storageName>>)
createComponentCustomUrl(name) == Command("createComponentCustomUrl", <<name>>)
\* ComponentType, and a source type import does not know
ComponentType == [Git |-> "git", Local |-> "local", Binary |-> "binary"]

\* lines 504-508
ImportBegin ==
    /\ \E component \in Comps :
          /\ inv.pc \in {"idle", "done"}
          /\ inv' = [Issue(IdleInv, ocGet("dc", component))
                        EXCEPT !.op = "import", !.pc = "import.dc", !.component = component]
          /\ pending' = {}
          /\ unhandled' = {}
    /\ UNCHANGED <<tvars, contextValue, globalState, lastPushed>>

\* lines 508-517
ImportDc ==
    /\ inv.pc = "import.dc"
    /\ \E componentType \in {ComponentType.Git, ComponentType.Local, ComponentType.Binary, "unknown", "error"} :
          inv' = CASE componentType = "error" -> Settle(inv, "reject", "error")
                   [] componentType = ComponentType.Binary ->
                        Settle(inv, "return", "Import for binary Knative Components is not supported.")
                   [] componentType = "unknown" ->
                        Settle(inv, "reject", "Cannot import unknown Component type")
                   [] OTHER -> [inv EXCEPT !.value = componentType, !.pc = "import.folder"]
    /\ UNCHANGED <<tvars, contextValue, globalState, pending, unhandled, lastPushed>>

\* lines 517-519, 538-547
ImportFolder ==
    /\ inv.pc = "import.folder"
    /\ \E workspaceFolder \in {"folder", Dismissed} :
          inv' = IF workspaceFolder = Dismissed
                 THEN Settle(inv, "return", "null")
                 ELSE IF inv.value = ComponentType.Git
                 THEN [Issue(inv, ocGet("bc", inv.component)) EXCEPT !.pc = "import.bc"]
                 ELSE [Issue(inv, createImported("createLocalComponent", inv.component))
                          EXCEPT !.pc = "import.create"]
    /\ UNCHANGED <<tvars, contextValue, globalState, pending, unhandled, lastPushed>>

\* lines 539-545, 590-592
ImportBc ==
    /\ inv.pc = "import.bc"
    /\ \E outcome \in Outcomes :
          inv' = IF outcome = "error"
                 THEN Settle(inv, "reject", "Component import failed with error")
                 ELSE [Issue(inv, createImported("createGitComponent", inv.component))
                          EXCEPT !.pc = "import.create"]
    /\ UNCHANGED <<tvars, contextValue, globalState, pending, unhandled, lastPushed>>

\* lines 560-562, 573-574: the next storage, if there is one; after the
\* last one the routes are asked for
Storages(i, storageData) ==
    IF storageData = <<>>
    THEN [Issue(i, ocGet("route", i.component)) EXCEPT !.todo = <<>>, !.pc = "import.route"]
    ELSE [Issue(i, ocGet("pvc", Head(storageData)))
             EXCEPT !.todo = storageData, !.pc = "import.pvc"]

\* lines 545-560: the component is created; the storages of the component
\* are those of its volumes that are persistent volume claims
ImportCreated ==
    /\ inv.pc = "import.create"
    /\ \E outcome \in Outcomes, n \in 0..MaxItems :
          inv' = IF outcome = "error"
                 THEN Settle(inv, "reject", "Component import failed with error")
                 ELSE Storages(inv, Items(n))
    /\ UNCHANGED <<tvars, contextValue, globalState, pending, unhandled, lastPushed>>

\* lines 562-569: the claim arrives, or the error is ignored
ImportPvc ==
    /\ inv.pc = "import.pvc"
    /\ \E outcome \in Outcomes :
          inv' = IF outcome = "error"
                 THEN Storages(inv, Tail(inv.todo))
                 ELSE [Issue(inv, createStorage(Head(inv.todo))) EXCEPT !.pc = "import.storage"]
    /\ UNCHANGED <<tvars, contextValue, globalState, pending, unhandled, lastPushed>>

\* lines 566-569: the storage is created, or the error is ignored
ImportStorage ==
    /\ inv.pc = "import.storage"
    /\ \E outcome \in Outcomes : inv' = Storages(inv, Tail(inv.todo))
    /\ UNCHANGED <<tvars, contextValue, globalState, pending, unhandled, lastPushed>>

\* lines 574-589: the routes arrive, or the error is ignored; the URL
\* create commands are started and not awaited, and import returns
ImportRoute ==
    /\ inv.pc = "import.route"
    /\ \E outcome \in Outcomes, n \in 0..MaxItems :
          LET routeData == IF outcome = "error" THEN <<>> ELSE Items(n)
              started == [k \in 1..Len(routeData) |->
                             createComponentCustomUrl(routeData[k])]
          IN /\ inv' = Settle([inv EXCEPT !.issued = @ \o started], "return",
                              "Component was successfully imported.")
             /\ pending' = pending \cup Range(started)
    /\ UNCHANGED <<tvars, contextValue, globalState, unhandled, lastPushed>>

\* the commands of Component invoked one after the other
NextComp ==
    \/ DelBegin
    \/ DelSelected
    \/ DelAnswered
    \/ DelDescribed
    \/ DelDeleted
    \/ PendingEnds
    \/ PushBegin
    \/ PushSelected
    \/ PushMigrated
    \/ PushWarned
    \/ UndeployBegin
    \/ UndeploySelected
    \/ UndeployAnswered
    \/ UndeployRan
    \/ LastPushBegin
    \/ LastPushGot
    \/ LinkBegin
    \/ LinkSelected
    \/ LinkComponents
    \/ LinkPicked
    \/ LinkPorts
    \/ LinkPort
    \/ LinkRan
    \/ UnlinkBegin
    \/ UnlinkSelected
    \/ UnlinkDescribed
    \/ UnlinkPicked
    \/ UnlinkRan
    \/ CreateBegin
    \/ CreateApplication
    \/ CreateStep
    \/ CreateRan
    \/ ImportBegin
    \/ ImportDc
    \/ ImportFolder
    \/ ImportBc
    \/ ImportCreated
    \/ ImportPvc
    \/ ImportStorage
    \/ ImportRoute

SpecComp == InitComp /\ [][NextComp]_vars

(* ================================================================ claims *)
\* indices of the candidates that are not null and whose detected version
\* satisfies the range
SatisfyingAt(locations, range) ==
    { i \in 1..Len(locations) :
        /\ locations[i] # Null
        /\ Satisfies(getVersion(fs, locations[i]), range) }

Min(S) == CHOOSE i \in S : \A j \in S : i <= j

\* C1: selectTool returns the first candidate, null entries skipped, whose
\* detected version satisfies the range, and undefined when there is none.
C1_SelectToolFirstSatisfying ==
    pc[1] = "selected" =>
        LET ok == SatisfyingAt(toolLocations[1], versionRange[1]) IN
        toolLocation[1] = IF ok = {} THEN Undefined
                          ELSE toolLocations[1][Min(ok)]

\* a run that skipped a null entry and an existing binary that does not
\* satisfy the range, and returned the third candidate
C1_Witness ==
    /\ pc[1] = "selected"
    /\ Len(toolLocations[1]) = 3
    /\ toolLocations[1][1] = Null
    /\ existsSync(fs, toolLocations[1][2])
    /\ toolLocations[1][2] # toolLocations[1][3]
    /\ toolLocation[1] = toolLocations[1][3]

\* C2: a call whose last download attempt had a wrong digest never records
\* tools[cmd].location, and the mismatching file is deleted as soon as the
\* mismatch is seen.
C2_MismatchNeverRecorded ==
    \A p \in Calls : hist[p].mismatched => ~hist[p].recorded

\* C3: a recorded location always holds a binary whose detected version
\* satisfies the version range of the tool.
C3_LocationSatisfiesRange ==
    Location(tools) # Undefined =>
        Satisfies(getVersion(fs, Location(tools)), tools[Cmd].versionRange)

\* C4: a call started while a location is recorded returns that location in
\* its first step, with no binary invoked, no prompt and no download, and a
\* recorded location changes only by being forgotten.
C4_Idempotent ==
    [][ /\ \A p \in Calls :
             (pc[p] = "idle" /\ pc'[p] # "idle" /\ Location(tools) # Undefined)
                => /\ pc'[p] = "done"
                   /\ toolLocation'[p] = Location(tools)
                   /\ hist'[p] = NoHist
                   /\ response'[p] = "none"
                   /\ <<tools, fs>>' = <<tools, fs>>
        /\ Location(tools) # Undefined
             => Location(tools') \in {Location(tools), Undefined} ]_vars

\* a call has returned a path that it did not record itself
C4_Witness ==
    \E p \in Calls :
        /\ pc[p] = "done"
        /\ toolLocation[p] = Location(tools)
        /\ toolLocation[p] # Undefined
        /\ ~hist[p].recorded

\* a download or an installation of the tool is in flight in call p
InFlight(p) == pc[p] \in {"downloading", "hash", "unzip"}

\* C5: at most one download/install of the tool is in flight at any time.
C5_SingleFlight == Cardinality({ p \in Calls : InFlight(p) }) <= 1

\* C6: once the user has cancelled the progress notification, the download
\* does not complete: the call goes on to no checksum verification, and the
\* cache directory keeps no downloaded file.
C6_CancelAborts ==
    [][ \A p \in Calls :
          hist[p].cancelled =>
              /\ pc'[p] # "hash"
              /\ pc'[p] # "downloading" => ~existsSync(fs', toolDlLocation) ]_vars

Unsupported(name) ==
    /\ ~endsWith(name, <<"zip">>)
    /\ ~endsWith(name, <<"tar", "gz">>)
    /\ ~endsWith(name, <<"gz">>)

\* C7: with a download file name of an unsupported archive extension, a
\* call that downloaded neither records a location nor returns the cache
\* path.
C7_UnsupportedAborts ==
    \A p \in Calls :
        (Unsupported(tools[Cmd].dlFileName) /\ hist[p].attempts > 0)
            => /\ ~hist[p].recorded
               /\ toolLocation[p] # toolCacheLocation

\* C8: a call in which the user answered 'Cancel', at the first prompt or at
\* the checksum prompt, has ended with nothing extracted, nothing recorded
\* and no path returned, and the step that takes the answer leaves the tool
\* registry and the cached binary as they were.
C8_CancelAborts ==
    /\ [](\A p \in Calls :
              (response[p] = "Cancel" \/ action[p] = "Cancel")
                  => /\ pc[p] = "done"
                     /\ toolLocation[p] = Undefined
                     /\ ~hist[p].extracted
                     /\ ~hist[p].recorded)
    /\ [][ \A p \in Calls :
              ( \/ response[p] # "Cancel" /\ response'[p] = "Cancel"
                \/ action[p] # "Cancel" /\ action'[p] = "Cancel" )
              => /\ tools' = tools
                 /\ fs[toolCacheLocation]' = fs[toolCacheLocation] ]_vars

\* a call ended by 'Cancel' at the checksum prompt, after a download
C8_Witness ==
    \E p \in Calls :
        /\ pc[p] = "done"
        /\ action[p] = "Cancel"
        /\ hist[p].attempts > 0

\* C9: when selectTool found nothing the call goes on to the prompt, never
\* to a failure, and a call has started a download only if the prompt was
\* answered with the install request.
C9_PromptThenInstall ==
    /\ [][ \A p \in Calls :
              (pc[p] = "selected" /\ toolLocation[p] = Undefined /\ pc'[p] # pc[p])
                  => pc'[p] = "prompt" ]_vars
    /\ [](\A p \in Calls :
              /\ pc[p] = "prompt" => hist[p].attempts = 0
              /\ hist[p].attempts > 0 => response[p] = InstallRequest)

\* a download runs after the binary on the PATH proved too old and the
\* cache held no binary
C9_Witness ==
    \E p \in Calls :
        /\ pc[p] = "downloading"
        /\ toolLocations[p] = <<WhichPath, toolCacheLocation>>
        /\ fs[WhichPath] = Bin(<<V090>>)
        /\ ~existsSync(fs, toolCacheLocation)

\* C10: a mismatch removes the downloaded file and prompts; the prompt is
\* followed by a new download exactly when the answer is 'Download again';
\* the downloads of a call number one more than its 'Download again' answers.
C10_RetryOnDownloadAgain ==
    /\ [][ \A p \in Calls :
              /\ (pc[p] = "hash" /\ pc'[p] = "mismatch")
                    => ~existsSync(fs', toolDlLocation)
              /\ pc[p] = "mismatch"
                    => ((pc'[p] = "downloading")
                            <=> (hist'[p].agains = hist[p].agains + 1))
              /\ pc[p] # "mismatch" => hist'[p].agains \in {hist[p].agains, 0} ]_vars
    /\ [](\A p \in Calls :
              hist[p].attempts > 0 => hist[p].attempts = 1 + hist[p].agains)

\* a second download of one call has mismatched too
C10_Witness ==
    \E p \in Calls :
        /\ pc[p] = "mismatch"
        /\ hist[p].attempts = 2
        /\ hist[p].agains = 1
        /\ ~existsSync(fs, toolDlLocation)

\* C11: tools[cmd].location is written at most once between two loads of
\* the configuration: a call writes it only while it is unset.
C11_WrittenOnce ==
    [][ \A p \in Calls :
          (~hist[p].recorded /\ hist'[p].recorded) => Location(tools) = Undefined ]_vars

\* C12: a call whose download failed is rejected, has extracted nothing and
\* recorded nothing, and the failing step leaves the tool registry and the
\* cached binary as they were.
C12_DownloadFailureRejects ==
    /\ [](\A p \in Calls :
              hist[p].failed
                  => /\ pc[p] = "rejected"
                     /\ ~hist[p].extracted
                     /\ ~hist[p].recorded)
    /\ [][ \A p \in Calls :
              (~hist[p].failed /\ hist'[p].failed)
                  => /\ tools' = tools
                     /\ fs[toolCacheLocation]' = fs[toolCacheLocation] ]_vars

\* the second download of a call has failed
C12_Witness ==
    \E p \in Calls :
        /\ hist[p].failed
        /\ pc[p] = "rejected"
        /\ hist[p].attempts = 2

\* C13: an install goes download, checksum, extraction, chmod, record: a
\* call extracts only after a download, records an installed location only
\* as its last step, and does neither unless the digest of its most recent
\* download matched.
C13_InstallOrder ==
    \A p \in Calls :
        /\ hist[p].extracted => hist[p].attempts > 0
        /\ (hist[p].recorded /\ hist[p].attempts > 0) => pc[p] = "done"
        /\ (hist[p].extracted \/ (hist[p].recorded /\ hist[p].attempts > 0))
              => ~hist[p].mismatched

\* C14: answering 'Cancel' to the first prompt, or dismissing it, starts no
\* download and changes neither the tool registry nor anything on disk: the
\* files and the cache directory are as before.
C14_CancelIsNoOp ==
    [][ \A p \in Calls :
          (pc[p] = "prompt" /\ response'[p] \in {"Cancel", "undefined"})
              => /\ hist'[p].attempts = 0
                 /\ pc'[p] = "done"
                 /\ tools' = tools
                 /\ fs' = fs
                 /\ dirExists' = dirExists ]_vars

\* the registry without the recorded locations
Metadata(t) == [o \in DOMAIN t |-> Delete(t[o], "location")]

\* C15: no step changes the metadata of a loaded tool (only its location
\* field is ever written), and no step, loading included, changes the
\* requirements object.
C15_MetadataImmutable ==
    [][ /\ Metadata(tools') = Metadata(tools)
        /\ configData' = configData ]_vars

\* a location has been recorded after an install and the metadata is still
\* what loadMetadata gives
C15_Witness ==
    /\ \E p \in Calls : hist[p].recorded /\ hist[p].extracted
    /\ Location(tools) # Undefined
    /\ Metadata(tools) = loadMetadata(configData, os)

\* C16: resetConfiguration forgets the location and leaves the disk alone;
\* a call started with no recorded location probes the candidates, the cache
\* path among them; it prompts only when neither the PATH binary nor the
\* cached binary satisfies the range, and otherwise returns what it found.
C16_ResetThenReprobe ==
    [][ /\ (tools' # tools /\ hist' = hist)
             => /\ Location(tools') = Undefined
                /\ fs' = fs
                /\ dirExists' = dirExists
        /\ \A p \in Calls :
             /\ (pc[p] = "idle" /\ pc'[p] # "idle" /\ Location(tools) = Undefined)
                   => /\ pc'[p] = "select"
                      /\ \E i \in 1..Len(toolLocations'[p]) :
                            toolLocations'[p][i] = toolCacheLocation
             /\ (pc[p] = "selected" /\ pc'[p] = "prompt")
                   => /\ ~Satisfies(getVersion(fs, toolCacheLocation),
                                    tools[Cmd].versionRange)
                      /\ ~Satisfies(getVersion(fs, WhichPath),
                                    tools[Cmd].versionRange)
             /\ (pc[p] = "selected" /\ toolLocation[p] # Undefined /\ pc'[p] # pc[p])
                   => /\ pc'[p] = "done"
                      /\ toolLocation'[p] = toolLocation[p] ]_vars

\* a call that downloaded nothing and was asked nothing has found the
\* installed binary in the cache and returned the cache path
C16_Witness ==
    \E p \in Calls :
        /\ pc[p] = "done"
        /\ toolLocation[p] = toolCacheLocation
        /\ hist[p].recorded
        /\ hist[p].attempts = 0
        /\ response[p] = "none"
        /\ fs[toolCacheLocation] = Bin(GoodArchive.out)
        /\ \A q \in Calls \ {p} : pc[q] = "idle"

\* C17: loadMetadata keeps an entry without platform key as it is, applies
\* the overrides of the platform (the override wins) and removes the platform
\* key when the platform is listed, and drops an entry whose platform key
\* does not list the platform.
C17_LoadMetadata ==
    pc[1] = "done" =>
        /\ DOMAIN tools \subseteq DOMAIN configData
        /\ \A o \in DOMAIN configData :
              LET entry == configData[o] IN
              IF "platform" \notin DOMAIN entry
              THEN o \in DOMAIN tools /\ tools[o] = entry
              ELSE IF os \in DOMAIN entry.platform
              THEN LET override == entry.platform[os] IN
                   /\ o \in DOMAIN tools
                   /\ DOMAIN tools[o]
                        = (DOMAIN entry \cup DOMAIN override) \ {"platform"}
                   /\ \A k \in DOMAIN override : tools[o][k] = override[k]
                   /\ \A k \in DOMAIN tools[o] \ DOMAIN override :
                         tools[o][k] = entry[k]
              ELSE o \notin DOMAIN tools

\* one tool had its overrides applied, the other was dropped
C17_Witness ==
    /\ pc[1] = "done"
    /\ DOMAIN tools = {"kn"}
    /\ "platform" \in DOMAIN configData.kn
    /\ "url" \in DOMAIN tools.kn
    /\ tools.kn.dlFileName # configData.kn.dlFileName
    /\ "platform" \in DOMAIN configData.tkn

\* positions of the lines of an output that match the version pattern
MatchingLines(out) == { i \in 1..Len(out) : out[i] # JunkLine }

\* C18: selectTool invokes only files that exist, and the candidate it
\* returns exists, prints at least one line matching the version pattern,
\* and the version of its first matching line satisfies the range.
C18_OnlyExistingWithVersion ==
    /\ \A location \in hist[1].invoked : existsSync(fs, location)
    /\ toolLocation[1] # Undefined =>
          LET out == fs[toolLocation[1]].out IN
          /\ existsSync(fs, toolLocation[1])
          /\ toolLocation[1] \in hist[1].invoked
          /\ MatchingLines(out) # {}
          /\ Satisfies(out[Min(MatchingLines(out))], versionRange[1])

\* the run passed a missing file without invoking it and a binary printing
\* no version, and returned a binary that prints two versions
C18_Witness ==
    /\ pc[1] = "selected"
    /\ Len(toolLocations[1]) = 3
    /\ toolLocations[1][1] # Null
    /\ ~existsSync(fs, toolLocations[1][1])
    /\ toolLocations[1][2] # Null
    /\ fs[toolLocations[1][2]] = Bin(<<JunkLine>>)
    /\ toolLocations[1][3] # Null
    /\ toolLocation[1] = toolLocations[1][3]
    /\ fs[toolLocation[1]] = Bin(<<JunkLine, V120, V090>>)
    /\ hist[1].invoked = {toolLocations[1][2], toolLocations[1][3]}

\* C20: when the binary on the PATH and the binary in the cache both
\* satisfy the range, a call that probed returns the PATH location, has
\* invoked only the PATH binary, and records the PATH location.
C20_PathBeforeCache ==
    \A p \in Calls :
        ( /\ pc[p] \in {"selected", "done"}
          /\ Len(toolLocations[p]) = 2
          /\ Satisfies(getVersion(fs, WhichPath), tools[Cmd].versionRange)
          /\ Satisfies(getVersion(fs, toolCacheLocation), tools[Cmd].versionRange) )
        => /\ toolLocation[p] = WhichPath
           /\ hist[p].invoked = {WhichPath}
           /\ pc[p] = "done" => (hist[p].recorded /\ Location(tools) = WhichPath)

\* a call has recorded the PATH location while the cache held a binary in
\* range too
C20_Witness ==
    \E p \in Calls :
        /\ pc[p] = "done"
        /\ hist[p].recorded
        /\ toolLocation[p] = WhichPath
        /\ Location(tools) = WhichPath
        /\ Satisfies(getVersion(fs, toolCacheLocation), tools[Cmd].versionRange)

\* C19: a started call eventually returns or rejects; the download loop is
\* left when the digest of an attempt matches, and when a checksum prompt
\* is answered with anything but 'Download again'.
C19_Terminates ==
    /\ \A p \in Calls :
          (pc[p] # "idle") ~> (pc[p] \in {"done", "rejected"})
    /\ [][ \A p \in Calls :
              /\ ( /\ pc[p] = "hash" /\ pc'[p] # "hash"
                    /\ existsSync(fs, toolDlLocation)
                    /\ sha256(fs[toolDlLocation]) = tools[Cmd].sha256sum )
                    => pc'[p] \in {"unzip", "done", "rejected"}
              /\ ( /\ pc[p] = "mismatch" /\ pc'[p] # "mismatch"
                    /\ hist'[p].agains = hist[p].agains )
                    => pc'[p] \in {"unzip", "done", "rejected"} ]_vars

\* a call has returned after a second download whose digest matched
C19_Witness ==
    \E p \in Calls :
        /\ pc[p] = "done"
        /\ hist[p].attempts = 2
        /\ hist[p].extracted
        /\ ~hist[p].mismatched

\* the answer given to the confirmation warning of del or of undeploy
Confirmation(i) == IF i.op = "del" THEN i.value ELSE i.other

\* C21: in del, in undeploy and in the undeploy started from push, the
\* describe/unlink, delete and undeploy commands are issued only once a
\* component is selected and 'Yes' was answered; an invocation that ends
\* with no component or another answer has issued none of them.
C21_OnlyAfterYes ==
    /\ inv.op \in {"del", "undeploy", "push"} =>
          \A k \in DOMAIN inv.issued :
              inv.issued[k].api \in {"describeComponentJson", "unlinkComponents",
                                     "deleteComponent", "undeployComponent"}
                  => /\ inv.component \in Comps
                     /\ Confirmation(inv) = "Yes"
    /\ ( /\ inv.op \in {"del", "undeploy"}
         /\ inv.pc = "done"
         /\ (inv.component = Dismissed \/ Confirmation(inv) # "Yes") )
         => /\ inv.issued = <<>>
            /\ inv.result.kind = "return"

\* an undeploy confirmed with 'Yes' has issued its command, and another
\* one ended on 'Cancel' with none
C21_Witness ==
    /\ inv.op = "undeploy"
    /\ inv.pc = "done"
    /\ inv.other = "Yes"
    /\ inv.issued = <<undeployComponent(inv.component)>>
    /\ inv.result.kind = "return"

\* C22: when del calls deleteComponent for a pushed or context-less
\* component, no unlink command it started is still running, and a del one
\* of whose unlink commands failed is rejected.
C22_UnlinkBeforeDelete ==
    inv.op = "del" =>
        /\ inv.pc = "del.delete" =>
              \A k \in DOMAIN inv.todo :
                  unlinkComponents(Project, App, inv.todo[k], inv.component) \notin pending
        /\ ( /\ inv.pc = "done"
             /\ \E k \in DOMAIN inv.todo :
                   unlinkComponents(Project, App, inv.todo[k], inv.component) \in unhandled )
             => inv.result = [kind |-> "reject",
                              value |-> "Failed to delete Component with error"]

\* C23: a push whose migration check succeeded and reported that no
\* undeploy is required has stored and run the push command and marked the
\* component COMPONENT_PUSHED.
C23_PushWhenNotMigrated ==
    ( /\ inv.op = "push"
      /\ inv.pc = "done"
      /\ inv.migrated = "false" )
    => /\ inv.terminal = <<[cmd |-> pushComponent, cwd |-> contextPath(inv.component)]>>
       /\ globalState.stored
       /\ globalState.contextPath = contextPath(inv.component)
       /\ contextValue[inv.component] = ContextType.COMPONENT_PUSHED

\* C24: a push of a component flagged as migrated runs nothing in the
\* terminal and does not change a context value, whatever is answered;
\* the warning stays exactly while the answer is 'Help'.
C24_MigratedNeverPushed ==
    [][ /\ (inv'.op = "push" /\ inv'.migrated = "true")
            => /\ inv'.terminal = <<>>
               /\ contextValue' = contextValue
        /\ (inv.pc = "push.warn" /\ inv' # inv)
            => (inv'.pc = "push.warn" <=> inv'.value = "Help") ]_vars

\* C25: lastPush with nothing stored is rejected with 'No existing push
\* command found' and runs nothing in the terminal.
C25_LastPushWithoutPush ==
    ( /\ inv.op = "lastPush"
      /\ inv.pc = "done"
      /\ ~globalState.stored )
    => /\ inv.result = [kind |-> "reject", value |-> "No existing push command found"]
       /\ inv.terminal = <<>>

\* C26: once a push has been executed, lastPush runs the push command in
\* the context path of the latest executed push; a push that ends without
\* running anything leaves what lastPush replays as it was.
C26_LastPushReplays ==
    [][ /\ (inv.pc = "lastPush.get" /\ inv'.pc = "done" /\ lastPushed # <<>>)
            => /\ inv'.result.kind = "return"
               /\ inv'.terminal = <<[cmd |-> pushComponent, cwd |-> lastPushed]>>
        /\ (inv'.op = "push" /\ inv'.pc = "done" /\ inv'.terminal = <<>>)
            => globalState' = globalState ]_vars

\* lastPush has replayed the push of one component while another one was
\* pushed too
C26_Witness ==
    /\ inv.op = "lastPush"
    /\ inv.pc = "done"
    /\ inv.terminal = <<[cmd |-> pushComponent, cwd |-> lastPushed]>>
    /\ \E c \in Comps : contextPath(c) # lastPushed /\ contextValue[c] = ContextType.COMPONENT_PUSHED

\* C27: the port of every link command is one of the ports the target
\* declares; the port prompt is shown only for several ports; without
\* ports the link is rejected with 'has no Ports declared' and no link
\* command is issued.
C27_LinkPortDeclared ==
    inv.op = "link" =>
        /\ \A k \in DOMAIN inv.issued :
              inv.issued[k].api = "linkComponentTo"
                  => inv.issued[k].args[5] \in Range(inv.todo)
        /\ inv.pc = "link.port" => Len(inv.todo) > 1
        /\ inv.result.value = "has no Ports declared"
              => /\ inv.todo = <<>>
                 /\ \A k \in DOMAIN inv.issued : inv.issued[k].api # "linkComponentTo"

\* C30: every unlink command del issues for a linked component is the
\* command unlinkComponent builds for the same two components.
C30_SameUnlinkCommand ==
    inv.op = "del" =>
        \A k \in DOMAIN inv.issued :
            inv.issued[k].api = "unlinkComponents"
                => \E compName \in Range(inv.todo) :
                      inv.issued[k] = UnlinkOne(inv.component, compName)

\* the create commands an invocation has issued
CreateIssued(i) == { k \in DOMAIN i.issued : i.issued[k].api \in
    {"createComponentFromFolder", "createComponentFromGit", "createComponentFromBinary"} }
\* the function that runs: the command itself, or the one create has
\* called for the chosen source type
Function(i) == IF i.op = "create" THEN i.value ELSE i.op
\* the inputs a create needs
Required(i) ==
    {"application", "component name", "type", "type version"}
    \cup (IF i.op = "create" THEN {"source type"} ELSE {})
    \cup (IF Function(i) = "createFromFolder" THEN {} ELSE {"workspace folder"})
    \cup (IF Function(i) \in {"createFromGit", "Git Repository"}
          THEN {"git repository URI", "git reference"} ELSE {})
    \cup (IF Function(i) \in {"createFromBinary", "Binary File"}
          THEN {"binary file"} ELSE {})

\* C28: a create command is issued at most once and only with every
\* required input answered; an invocation that returned without a result
\* has issued none and returned null (or the 'no binary file' message), and
\* a failing create rejects Component.create with 'Failed to create
\* Component with error'.
C28_CreateAfterPrompts ==
    inv.op \in CreateOps =>
        /\ Cardinality(CreateIssued(inv)) <= 1
        /\ CreateIssued(inv) # {} => Required(inv) \subseteq inv.answered
        /\ (inv.pc = "done" /\ ~(Required(inv) \subseteq inv.answered))
              => /\ CreateIssued(inv) = {}
                 /\ inv.result.kind = "return"
                       => inv.result.value \in {"null", "No binary file present"}
        /\ (inv.op = "create" /\ CreateIssued(inv) # {} /\ inv.result.kind = "reject")
              => inv.result.value = "Failed to create Component with error"

\* Component.create has issued the create command for a git repository,
\* and the command has failed
C28_Witness ==
    /\ inv.op = "create"
    /\ inv.value = "Git Repository"
    /\ inv.pc = "done"
    /\ CreateIssued(inv) # {}
    /\ inv.result.kind = "reject"

\* C29: when import has returned its success message, none of the commands
\* it issued is still running, and none of its URL create commands has
\* failed without a handler.
C29_ImportAfterCommands ==
    ( /\ inv.op = "import"
      /\ inv.result.value = "Component was successfully imported." )
    => \A k \in DOMAIN inv.issued :
          /\ inv.issued[k] \notin pending
          /\ inv.issued[k] \notin unhandled

====
